---- MODULE Spec2Model ----
(***************************************************************************)
(* Model of pyproject_toml_to_environment_file.py: the translation of the  *)
(* dependency groups of a parsed pyproject.toml into environment yaml      *)
(* files.  The state is the output file system, the console, and, per      *)
(* invocation, the arguments, the locals and the position in the code.     *)
(***************************************************************************)
EXTENDS Integers, Sequences, FiniteSets, TLC

\* ------------------------------------------------------------------ bounds
\* A manifest (or a directly passed mapping) names at most MaxDeps
\* dependency strings in total, over all of its groups.
MaxDeps == 2

Packages == {"numpy", "pandas"}
\* Names that occur as keys of the optional-dependencies sub-table.
GroupNames == {"dependencies", "test"}
\* Values of the dep_type argument ("docs" is never a key of the manifest).
DepTypes == {"all", "dependencies", "test", "docs"}
\* Values of the output_path argument, as path components.
OutPaths == {<<"build">>, <<"build", "/">>}
Procs == {1, 2}

\* ------------------------------------------------------- parsed documents
\* A parsed value is tagged with its type: a string, a list of strings or a
\* mapping.  A mapping is the sequence of its items in stored order.
Str(s) == [t |-> "str", v |-> s]
List(l) == [t |-> "list", v |-> l]
Dict(items) == [t |-> "dict", v |-> items]
Item(k, x) == [key |-> k, val |-> x]

IsDict(x) == x.t = "dict"
Keys(d) == [i \in 1..Len(d.v) |-> d.v[i].key]
Has(d, k) == \E i \in 1..Len(d.v) : d.v[i].key = k
Get(d, k) == d.v[CHOOSE i \in 1..Len(d.v) : d.v[i].key = k].val

Lists(n) == UNION {[1..k -> Packages] : k \in 0..n}
KeySeqs ==
  {ks \in UNION {[1..k -> GroupNames] : k \in 0..Cardinality(GroupNames)} :
     \A i, j \in 1..Len(ks) : i # j => ks[i] # ks[j]}

\* The optional-dependencies sub-tables: distinct keys in any stored order.
OptTablesOf(ks) ==
  {Dict([i \in 1..Len(ks) |-> Item(ks[i], List(ls[i]))]) :
     ls \in [1..Len(ks) -> Lists(MaxDeps)]}
OptTables == UNION {OptTablesOf(ks) : ks \in KeySeqs}

RECURSIVE SumLen(_)
SumLen(items) ==
  IF items = <<>> THEN 0 ELSE Len(Head(items).val.v) + SumLen(Tail(items))

TotalDeps(project) ==
  (IF Has(project, "dependencies") THEN Len(Get(project, "dependencies").v) ELSE 0)
  + (IF Has(project, "optional-dependencies")
       THEN SumLen(Get(project, "optional-dependencies").v) ELSE 0)

ProjectTables ==
  {p \in {Dict(d \o o) :
            d \in {<<>>} \cup {<<Item("dependencies", List(l))>> : l \in Lists(MaxDeps)},
            o \in {<<>>} \cup {<<Item("optional-dependencies", t)>> : t \in OptTables}} :
     TotalDeps(p) <= MaxDeps}

\* What tomli.load can return: no project key, a project that is no table,
\* or a project table.
Manifests ==
  {Dict(<<>>), Dict(<<Item("project", Str("x"))>>)}
    \cup {Dict(<<Item("project", p)>>) : p \in ProjectTables}

\* ------------------------------------------------------------ the errors
ErrNoProject == "ValueError: Expected pyproject.toml to include a project table."
ErrProjectNotDict == "ValueError: Expected pyproject.toml's project table to return dict"
ErrNoSubTable == "ValueError: project table does not include {dep_table} sub-table."
ErrSomething == "ValueError: Something."
ErrEmpty == "ValueError: Empty dependency dictionary found."
ErrFileExists == "FileExistsError"
NoErr == "none"
SchemaErrors == {ErrNoProject, ErrProjectNotDict, ErrNoSubTable, ErrSomething}

\* --------------------------------------------------------- pure functions
\* Variant: the first entry of the sub-table is returned, whatever was asked.
load_dependencies_first(toml_project_dict, dep_type) ==
  LET dep_table == IF dep_type = "dependencies" THEN "dependencies"
                   ELSE "optional-dependencies"
  IN IF ~Has(toml_project_dict, dep_table)
       THEN [err |-> ErrNoSubTable, val |-> List(<<>>)]
     ELSE IF dep_type = "dependencies"
       THEN [err |-> NoErr, val |-> Get(toml_project_dict, dep_type)]
     ELSE LET sub_dep_table == Get(toml_project_dict, dep_table)
          IN IF ~Has(sub_dep_table, dep_type)
               THEN [err |-> ErrSomething, val |-> List(<<>>)]
               ELSE [err |-> NoErr, val |-> sub_dep_table.v[1].val]

\* Variant: a group missing from the sub-table reads as the empty list.
load_dependencies_lenient(toml_project_dict, dep_type) ==
  LET dep_table == IF dep_type = "dependencies" THEN "dependencies"
                   ELSE "optional-dependencies"
  IN IF ~Has(toml_project_dict, dep_table)
       THEN [err |-> ErrNoSubTable, val |-> List(<<>>)]
     ELSE IF dep_type = "dependencies"
       THEN [err |-> NoErr, val |-> Get(toml_project_dict, dep_type)]
     ELSE LET sub_dep_table == Get(toml_project_dict, dep_table)
          IN IF ~Has(sub_dep_table, dep_type)
               THEN [err |-> NoErr, val |-> List(<<>>)]
               ELSE [err |-> NoErr, val |-> Get(sub_dep_table, dep_type)]

\* _load_dependencies: the requested list, or the error raised.
load_dependencies(toml_project_dict, dep_type) ==
  LET dep_table == IF dep_type = "dependencies" THEN "dependencies"
                   ELSE "optional-dependencies"
  IN IF ~Has(toml_project_dict, dep_table)
       THEN [err |-> ErrNoSubTable, val |-> List(<<>>)]
     ELSE IF dep_type = "dependencies"
       THEN [err |-> NoErr, val |-> Get(toml_project_dict, dep_type)]
     ELSE LET sub_dep_table == Get(toml_project_dict, dep_table)
          IN IF ~Has(sub_dep_table, dep_type)
               THEN [err |-> ErrSomething, val |-> List(<<>>)]
               ELSE [err |-> NoErr, val |-> Get(sub_dep_table, dep_type)]

\* output_path normalised to end with a separator.
NormPath(path) ==
  IF path[Len(path)] \in {"\\", "/"} THEN path ELSE path \o <<"/">>

\* The name of the file _write_dependencies opens.
FileName(output_path, dep_name) == output_path \o <<dep_name, ".yaml">>

\* Variant: repeated dependency strings are dropped from the record.
RECURSIVE Dedup(_)
Dedup(l) ==
  IF l = <<>> THEN <<>>
  ELSE LET t == Dedup(SubSeq(l, 1, Len(l) - 1))
       IN IF \E i \in 1..Len(t) : t[i] = l[Len(l)] THEN t ELSE Append(t, l[Len(l)])
DepYaml_dedup(deps) ==
  LET dep_name == Keys(deps)[1]
  IN [name |-> dep_name, dependencies |-> Dedup(Get(deps, dep_name).v)]

\* The record _write_dependencies builds for the first key of deps.
DepYaml(deps) ==
  LET dep_name == Keys(deps)[1]
  IN [name |-> dep_name, dependencies |-> Get(deps, dep_name).v]

\* yaml.dump of the record, as the lines of block style with sorted keys.
Line(k, x) == [k |-> k, v |-> x]
YamlDump(dep_yaml) ==
  (IF dep_yaml.dependencies = <<>>
     THEN <<Line("dependencies: []", "")>>
     ELSE <<Line("dependencies:", "")>>
            \o [i \in 1..Len(dep_yaml.dependencies) |->
                  Line("- ", dep_yaml.dependencies[i])])
  \o <<Line("name: ", dep_yaml.name)>>

\* A write of data at offset pos of a file holding old.
WriteAt(old, pos, data) ==
  SubSeq(old, 1, pos) \o data \o SubSeq(old, pos + Len(data) + 1, Len(old))

\* The status line printed when verbose.
StatusLine(path, dep_yaml) == [path |-> path, data |-> dep_yaml]

Call(g, v) == [sel |-> g, verbose |-> v]

\* Variant: the loop over the optional groups stops after the first key.
Calls_first_only(project, dep_type, verbose) ==
  IF dep_type = "all"
    THEN (IF Has(project, "dependencies")
            THEN <<Call("dependencies", verbose)>> ELSE <<>>)
         \o (IF Has(project, "optional-dependencies")
               THEN LET ks == Keys(Get(project, "optional-dependencies"))
                    IN [i \in 1..(IF Len(ks) > 0 THEN 1 ELSE 0) |-> Call(ks[i], FALSE)]
               ELSE <<>>)
    ELSE <<Call(dep_type, FALSE)>>

\* Variant: the required group is loaded without testing for its key.
Calls_always_required(project, dep_type, verbose) ==
  IF dep_type = "all"
    THEN <<Call("dependencies", verbose)>>
         \o (IF Has(project, "optional-dependencies")
               THEN LET ks == Keys(Get(project, "optional-dependencies"))
                    IN [i \in 1..Len(ks) |-> Call(ks[i], FALSE)]
               ELSE <<>>)
    ELSE <<Call(dep_type, FALSE)>>

\* The calls the branch on dep_type makes, in order: the group each one
\* selects and the verbose flag it hands to _write_dependencies.
Calls(project, dep_type, verbose) ==
  IF dep_type = "all"
    THEN (IF Has(project, "dependencies")
            THEN <<Call("dependencies", verbose)>> ELSE <<>>)
         \o (IF Has(project, "optional-dependencies")
               THEN LET ks == Keys(Get(project, "optional-dependencies"))
                    IN [i \in 1..Len(ks) |-> Call(ks[i], FALSE)]
               ELSE <<>>)
    ELSE <<Call(dep_type, FALSE)>>

\* ------------------------------------------------------------------ state
VARIABLES
  dirs,      \* the directories that exist
  files,     \* the files that exist: path -> lines
  args,      \* per invocation: the function called and its arguments
  pc,        \* per invocation: the position in the code
  err,       \* per invocation: the exception that ended it, or NoErr
  opath,     \* per invocation: the local output_path
  pending,   \* per invocation: the calls of the dep_type branch still to make
  dep_dict,  \* per invocation: the mapping handed to _write_dependencies
  wverbose,  \* per invocation: the verbose argument of _write_dependencies
  pos,       \* per invocation: the offset of the open file
  ret,       \* per invocation: the records _write_dependencies returned
  out,       \* per invocation: the status lines printed
  written,   \* the files dumped, in order, each with the invocation that did
  run,       \* per invocation: 1, or 2 when it is the repeated invocation
  snap,      \* per invocation: the outcome of the first invocation
  dirs0,     \* the directories before the first invocation
  files0     \* the files before the first invocation

vars == <<dirs, files, args, pc, err, opath, pending, dep_dict, wverbose, pos,
          ret, out, written, run, snap, dirs0, files0>>

\* A file system before the invocation: no output directory, or one that
\* already holds files (one of them longer than any file written).
OldTest == [name |-> "test", dependencies |-> <<"old", "old", "old", "old">>]
OldFiles ==
  [f \in {<<"build", "/", "test", ".yaml">>, <<"build", "/", "other", ".yaml">>} |->
     IF f[3] = "test" THEN YamlDump(OldTest) ELSE <<Line("other", "")>>]
NoFiles == [f \in {} |-> <<>>]
FileSystems ==
  {[dirs |-> {}, files |-> NoFiles],
   [dirs |-> {<<"build", "/">>}, files |-> OldFiles]}

\* The mappings a direct call of _write_dependencies is given.
DirectDeps ==
  {Dict(<<>>)} \cup {Dict(<<Item(g, List(l))>>) : g \in GroupNames, l \in Lists(MaxDeps)}

TranslateArgs ==
  [entry : {"translate"}, toml_dict : Manifests, dep_type : DepTypes,
   verbose : BOOLEAN, output_path : OutPaths, deps : {Dict(<<>>)}]
WriteArgs ==
  [entry : {"write"}, toml_dict : {Dict(<<>>)}, dep_type : {"all"},
   verbose : BOOLEAN, output_path : OutPaths, deps : DirectDeps]

\* The position and the locals at the entry of the function called.
Entry(a) ==
  [pc |-> IF a.entry = "translate" THEN "start" ELSE "exists",
   opath |-> a.output_path, dep_dict |-> a.deps, wverbose |-> a.verbose]

NoSnap == [pc |-> "none", err |-> NoErr, dirs |-> {}, files |-> NoFiles,
           ret |-> <<>>, out |-> <<>>, written |-> <<>>]

Start(a, fs, live) ==
  /\ args = a
  /\ dirs = fs.dirs /\ files = fs.files
  /\ dirs0 = fs.dirs /\ files0 = fs.files
  /\ pc = [p \in Procs |-> IF p \in live THEN Entry(a[p]).pc ELSE "off"]
  /\ err = [p \in Procs |-> NoErr]
  /\ opath = [p \in Procs |-> Entry(a[p]).opath]
  /\ pending = [p \in Procs |-> <<>>]
  /\ dep_dict = [p \in Procs |-> Entry(a[p]).dep_dict]
  /\ wverbose = [p \in Procs |-> Entry(a[p]).wverbose]
  /\ pos = [p \in Procs |-> 0]
  /\ ret = [p \in Procs |-> <<>>]
  /\ out = [p \in Procs |-> <<>>]
  /\ written = <<>>
  /\ run = [p \in Procs |-> 1]
  /\ snap = [p \in Procs |-> NoSnap]

\* One invocation, of either function, possibly repeated.
Init ==
  \E a \in TranslateArgs \cup WriteArgs, fs \in FileSystems :
    Start([p \in Procs |-> a], fs, {1})

\* --------------------------------------------------------------- actions
Raise(p, e) ==
  /\ pc' = [pc EXCEPT ![p] = "error"]
  /\ err' = [err EXCEPT ![p] = e]

\* Variant: the output directory is created before the manifest is verified.
Begin_mkdir(p) ==
  /\ pc[p] = "start"
  /\ opath' = [opath EXCEPT ![p] = NormPath(args[p].output_path)]
  /\ dirs' = dirs \cup {NormPath(args[p].output_path)}
  /\ LET toml_dict == args[p].toml_dict
     IN IF ~Has(toml_dict, "project")
          THEN Raise(p, ErrNoProject) /\ UNCHANGED pending
        ELSE IF ~IsDict(Get(toml_dict, "project"))
          THEN Raise(p, ErrProjectNotDict) /\ UNCHANGED pending
        ELSE LET calls == Calls(Get(toml_dict, "project"), args[p].dep_type,
                                args[p].verbose)
             IN /\ pending' = [pending EXCEPT ![p] = calls]
                /\ pc' = [pc EXCEPT ![p] = IF calls = <<>> THEN "done" ELSE "extract"]
                /\ UNCHANGED err
  /\ UNCHANGED <<files, args, dep_dict, wverbose, pos, ret, out, written,
                 run, snap, dirs0, files0>>

\* Lines 160-181: normalise the paths, load the manifest, verify the project
\* table, and branch on dep_type.
Begin(p) ==
  /\ pc[p] = "start"
  /\ opath' = [opath EXCEPT ![p] = NormPath(args[p].output_path)]
  /\ LET toml_dict == args[p].toml_dict
     IN IF ~Has(toml_dict, "project")
          THEN Raise(p, ErrNoProject) /\ UNCHANGED pending
        ELSE IF ~IsDict(Get(toml_dict, "project"))
          THEN Raise(p, ErrProjectNotDict) /\ UNCHANGED pending
        ELSE LET calls == Calls(Get(toml_dict, "project"), args[p].dep_type,
                                args[p].verbose)
             IN /\ pending' = [pending EXCEPT ![p] = calls]
                /\ pc' = [pc EXCEPT ![p] = IF calls = <<>> THEN "done" ELSE "extract"]
                /\ UNCHANGED err
  /\ UNCHANGED <<dirs, files, args, dep_dict, wverbose, pos, ret, out, written,
                 run, snap, dirs0, files0>>

\* Variant: a group that fails to load is skipped and the run goes on.
Extract_skip(p) ==
  /\ pc[p] = "extract"
  /\ LET call == Head(pending[p])
         r == load_dependencies(Get(args[p].toml_dict, "project"), call.sel)
     IN IF r.err # NoErr
          THEN /\ pending' = [pending EXCEPT ![p] = Tail(@)]
               /\ pc' = [pc EXCEPT ![p] =
                            IF Tail(pending[p]) = <<>> THEN "done" ELSE "extract"]
               /\ UNCHANGED <<dep_dict, wverbose, err>>
          ELSE /\ dep_dict' = [dep_dict EXCEPT ![p] = Dict(<<Item(call.sel, r.val)>>)]
               /\ wverbose' = [wverbose EXCEPT ![p] = call.verbose]
               /\ pc' = [pc EXCEPT ![p] = "exists"]
               /\ UNCHANGED <<err, pending>>
  /\ UNCHANGED <<dirs, files, args, opath, pos, ret, out, written,
                 run, snap, dirs0, files0>>

\* Lines 183-184, 188-189, 192-193: load the group and wrap it in dep_dict.
Extract(p) ==
  /\ pc[p] = "extract"
  /\ LET call == Head(pending[p])
         r == load_dependencies(Get(args[p].toml_dict, "project"), call.sel)
     IN IF r.err # NoErr
          THEN Raise(p, r.err) /\ UNCHANGED <<dep_dict, wverbose>>
          ELSE /\ dep_dict' = [dep_dict EXCEPT ![p] = Dict(<<Item(call.sel, r.val)>>)]
               /\ wverbose' = [wverbose EXCEPT ![p] = call.verbose]
               /\ pc' = [pc EXCEPT ![p] = "exists"]
               /\ UNCHANGED err
  /\ UNCHANGED <<dirs, files, args, opath, pending, pos, ret, out, written,
                 run, snap, dirs0, files0>>

\* Lines 112-114: normalise output_path and test whether it exists.
CheckExists(p) ==
  /\ pc[p] = "exists"
  /\ opath' = [opath EXCEPT ![p] = NormPath(opath[p])]
  /\ pc' = [pc EXCEPT ![p] = IF NormPath(opath[p]) \in dirs THEN "open" ELSE "makedirs"]
  /\ UNCHANGED <<dirs, files, args, err, pending, dep_dict, wverbose, pos, ret,
                 out, written, run, snap, dirs0, files0>>

\* Line 115: os.makedirs, which raises when the directory exists.
MakeDirs(p) ==
  /\ pc[p] = "makedirs"
  /\ IF opath[p] \in dirs
       THEN Raise(p, ErrFileExists) /\ UNCHANGED dirs
       ELSE /\ dirs' = dirs \cup {opath[p]}
            /\ pc' = [pc EXCEPT ![p] = "open"]
            /\ UNCHANGED err
  /\ UNCHANGED <<files, args, opath, pending, dep_dict, wverbose, pos, ret, out,
                 written, run, snap, dirs0, files0>>

\* Variant: the file is opened for appending, so it is neither truncated
\* nor written from its start.
OpenFile_append(p) ==
  /\ pc[p] = "open"
  /\ IF Len(dep_dict[p].v) = 0
       THEN Raise(p, ErrEmpty) /\ UNCHANGED <<files, pos>>
       ELSE LET f == FileName(opath[p], DepYaml(dep_dict[p]).name)
            IN /\ files' = [g \in DOMAIN files \cup {f} |->
                              IF g \in DOMAIN files THEN files[g] ELSE <<>>]
               /\ pos' = [pos EXCEPT ![p] = IF f \in DOMAIN files THEN Len(files[f]) ELSE 0]
               /\ pc' = [pc EXCEPT ![p] = "dump"]
               /\ UNCHANGED err
  /\ UNCHANGED <<dirs, args, opath, pending, dep_dict, wverbose, ret, out,
                 written, run, snap, dirs0, files0>>

\* Lines 117-122: reject an empty mapping, build the record, and open the
\* file for writing, which creates or truncates it.
OpenFile(p) ==
  /\ pc[p] = "open"
  /\ IF Len(dep_dict[p].v) = 0
       THEN Raise(p, ErrEmpty) /\ UNCHANGED <<files, pos>>
       ELSE LET f == FileName(opath[p], DepYaml(dep_dict[p]).name)
            IN /\ files' = [g \in DOMAIN files \cup {f} |->
                              IF g = f THEN <<>> ELSE files[g]]
               /\ pos' = [pos EXCEPT ![p] = 0]
               /\ pc' = [pc EXCEPT ![p] = "dump"]
               /\ UNCHANGED err
  /\ UNCHANGED <<dirs, args, opath, pending, dep_dict, wverbose, ret, out,
                 written, run, snap, dirs0, files0>>

\* Lines 123-129: dump the record and close the file, print the status line
\* when verbose, and return the record; the caller goes on to its next call.
DumpFile(p) ==
  /\ pc[p] = "dump"
  /\ LET dep_yaml == DepYaml(dep_dict[p])
         f == FileName(opath[p], dep_yaml.name)
         rest == IF args[p].entry = "translate" THEN Tail(pending[p]) ELSE <<>>
     IN /\ files' = [files EXCEPT ![f] = WriteAt(files[f], pos[p], YamlDump(dep_yaml))]
        /\ out' = [out EXCEPT ![p] =
                     IF wverbose[p] THEN Append(@, StatusLine(f, dep_yaml)) ELSE @]
        /\ ret' = [ret EXCEPT ![p] = Append(@, dep_yaml)]
        /\ written' = Append(written, [by |-> p, file |-> f])
        /\ pending' = [pending EXCEPT ![p] = rest]
        /\ pc' = [pc EXCEPT ![p] = IF rest = <<>> THEN "done" ELSE "extract"]
  /\ UNCHANGED <<dirs, args, err, opath, dep_dict, wverbose, pos, run, snap,
                 dirs0, files0>>

\* The files invocation p has dumped, in order.
Written(p) ==
  LET mine == SelectSeq(written, LAMBDA w : w.by = p)
  IN [i \in 1..Len(mine) |-> mine[i].file]

\* The same call made a second time, once the first has ended: its outcome
\* is kept for comparison and the invocation starts afresh.
Rerun(p) ==
  /\ pc[p] \in {"done", "error"}
  /\ run[p] = 1
  /\ run' = [run EXCEPT ![p] = 2]
  /\ snap' = [snap EXCEPT ![p] =
                [pc |-> pc[p], err |-> err[p], dirs |-> dirs, files |-> files,
                 ret |-> ret[p], out |-> out[p], written |-> Written(p)]]
  /\ pc' = [pc EXCEPT ![p] = Entry(args[p]).pc]
  /\ err' = [err EXCEPT ![p] = NoErr]
  /\ opath' = [opath EXCEPT ![p] = Entry(args[p]).opath]
  /\ pending' = [pending EXCEPT ![p] = <<>>]
  /\ dep_dict' = [dep_dict EXCEPT ![p] = Entry(args[p]).dep_dict]
  /\ wverbose' = [wverbose EXCEPT ![p] = Entry(args[p]).wverbose]
  /\ pos' = [pos EXCEPT ![p] = 0]
  /\ ret' = [ret EXCEPT ![p] = <<>>]
  /\ out' = [out EXCEPT ![p] = <<>>]
  /\ written' = SelectSeq(written, LAMBDA w : w.by # p)
  /\ UNCHANGED <<dirs, files, args, dirs0, files0>>

Next ==
  \E p \in {1} :
    \/ Begin(p)
    \/ Extract(p)
    \/ CheckExists(p)
    \/ MakeDirs(p)
    \/ OpenFile(p)
    \/ DumpFile(p)
    \/ Rerun(p)

Spec == Init /\ [][Next]_vars

\* Two invocations of the tool for the group "test", each with a manifest of
\* its own, running concurrently against the same output directory.
TestManifests ==
  {Dict(<<Item("project",
          Dict(<<Item("optional-dependencies", Dict(<<Item("test", List(l))>>))>>))>>) :
     l \in Lists(MaxDeps)}
ConcArgs ==
  [entry : {"translate"}, toml_dict : TestManifests, dep_type : {"test"},
   verbose : {FALSE}, output_path : OutPaths, deps : {Dict(<<>>)}]

InitC ==
  \E a \in [Procs -> ConcArgs], fs \in FileSystems : Start(a, fs, Procs)

NextC ==
  \E p \in Procs :
    \/ Begin(p)
    \/ Extract(p)
    \/ CheckExists(p)
    \/ MakeDirs(p)
    \/ OpenFile(p)
    \/ DumpFile(p)

SpecC == InitC /\ [][NextC]_vars

\* ----------------------------------------------------------- the claims
Translating(p) == pc[p] # "off" /\ args[p].entry = "translate"
Writing(p) == pc[p] # "off" /\ args[p].entry = "write"
HasProject(p) ==
  Has(args[p].toml_dict, "project") /\ IsDict(Get(args[p].toml_dict, "project"))
Project(p) == Get(args[p].toml_dict, "project")
HasReq(p) == Has(Project(p), "dependencies")
HasOpt(p) == Has(Project(p), "optional-dependencies")
Req(p) == Get(Project(p), "dependencies").v
Opt(p) == Get(Project(p), "optional-dependencies")
OptKeys(p) == IF HasOpt(p) THEN {Keys(Opt(p))[i] : i \in 1..Len(Opt(p).v)} ELSE {}
OutDir(p) == NormPath(args[p].output_path)
Rec(g, l) == [name |-> g, dependencies |-> l]
Holds(f, rec) == f \in DOMAIN files /\ files[f] = YamlDump(rec)
WrittenSet(p) == {Written(p)[i] : i \in 1..Len(Written(p))}
Untouched == dirs = dirs0 /\ files = files0
InWrite(p) == pc[p] \in {"exists", "makedirs", "open", "dump"}

\* C1 (as stated): after a successful run with dep_type = "all" there is
\* dependencies.yaml with the required list when the dependencies key
\* exists, g.yaml with optional-dependencies[g] for every optional key g
\* whatever its name, and no other file was written.
C1_EveryGroupFile ==
  \A p \in Procs :
    (Translating(p) /\ args[p].dep_type = "all" /\ pc[p] = "done") =>
      /\ HasReq(p) => Holds(FileName(OutDir(p), "dependencies"),
                            Rec("dependencies", Req(p)))
      /\ \A g \in OptKeys(p) :
           Holds(FileName(OutDir(p), g), Rec(g, Get(Opt(p), g).v))
      /\ WrittenSet(p) =
           (IF HasReq(p) THEN {FileName(OutDir(p), "dependencies")} ELSE {})
             \cup {FileName(OutDir(p), g) : g \in OptKeys(p)}

\* C1 (amended): the same, for every optional key g other than
\* "dependencies"; an optional key of that name selects the required list.
C1_EveryGroupFileButSentinel ==
  \A p \in Procs :
    (Translating(p) /\ args[p].dep_type = "all" /\ pc[p] = "done") =>
      /\ HasReq(p) => Holds(FileName(OutDir(p), "dependencies"),
                            Rec("dependencies", Req(p)))
      /\ \A g \in OptKeys(p) \ {"dependencies"} :
           Holds(FileName(OutDir(p), g), Rec(g, Get(Opt(p), g).v))
      /\ WrittenSet(p) =
           (IF HasReq(p) THEN {FileName(OutDir(p), "dependencies")} ELSE {})
             \cup {FileName(OutDir(p), g) : g \in OptKeys(p) \ {"dependencies"}}

C1_Witness ==
  /\ Translating(1) /\ args[1].dep_type = "all" /\ pc[1] = "done"
  /\ HasReq(1) /\ Req(1) # <<>>
  /\ OptKeys(1) = {"dependencies", "test"}
  /\ Get(Opt(1), "test").v # <<>>

\* The group the call in progress selects.
Sel(p) == Head(pending[p]).sel
\* The invocation has just loaded, or failed to load, the selected group.
Loaded(p) ==
  /\ Translating(p) /\ pending[p] # <<>>
  /\ InWrite(p) \/ (pc[p] = "error" /\ err[p] # ErrFileExists)

\* C2 (as stated): whenever the optional-dependencies mapping has the key g
\* with list L, _load_dependencies(project, g) returns exactly L, for every
\* group name g.
C2_LoadReturnsGroup ==
  \A p \in Procs :
    (Loaded(p) /\ Sel(p) \in OptKeys(p)) =>
      /\ pc[p] # "error"
      /\ dep_dict[p] = Dict(<<Item(Sel(p), Get(Opt(p), Sel(p)))>>)

\* C2 (amended): the same, for every group name g other than "dependencies".
C2_LoadReturnsGroupButSentinel ==
  \A p \in Procs :
    (Loaded(p) /\ Sel(p) \in OptKeys(p) \ {"dependencies"}) =>
      /\ pc[p] # "error"
      /\ dep_dict[p] = Dict(<<Item(Sel(p), Get(Opt(p), Sel(p)))>>)

C2_Witness ==
  /\ Translating(1) /\ pc[1] = "exists" /\ pending[1] # <<>>
  /\ Sel(1) = "test" /\ OptKeys(1) = {"dependencies", "test"}
  /\ dep_dict[1].v[1].val.v = <<"pandas", "numpy">>

\* The list a single-group dep_type selects.
Selected(p) ==
  IF args[p].dep_type = "dependencies" THEN Req(p)
  ELSE Get(Opt(p), args[p].dep_type).v

MissingGroup(p) ==
  /\ Translating(p) /\ HasProject(p) /\ args[p].dep_type # "all"
  /\ IF args[p].dep_type = "dependencies" THEN ~HasReq(p)
     ELSE ~HasOpt(p) \/ args[p].dep_type \notin OptKeys(p)

\* C4: with a single-group dep_type whose key is missing, the run never
\* reaches a write; it ends in a schema error; and nothing of the output
\* location has changed: no file written, no directory created.
C4_MissingGroupFails ==
  \A p \in Procs :
    MissingGroup(p) =>
      /\ pc[p] \in {"start", "extract", "error"}
      /\ pc[p] = "error" =>
           err[p] = (IF args[p].dep_type = "dependencies" \/ ~HasOpt(p)
                       THEN ErrNoSubTable ELSE ErrSomething)
      /\ err[p] \in SchemaErrors \cup {NoErr}
      /\ Written(p) = <<>>
      /\ Untouched

C4_Witness ==
  /\ MissingGroup(1) /\ pc[1] = "error" /\ err[1] = ErrSomething
  /\ args[1].dep_type = "docs" /\ dirs = {}

\* C5: when the manifest has no project key, or a project that is no
\* mapping, the run fails with a schema error before it selects a group,
\* whatever dep_type is, and the output location is as it was.
C5_NoProjectFails ==
  \A p \in Procs :
    (Translating(p) /\ ~HasProject(p)) =>
      /\ pc[p] \in {"start", "error"}
      /\ pc[p] = "error" =>
           err[p] = (IF Has(args[p].toml_dict, "project")
                       THEN ErrProjectNotDict ELSE ErrNoProject)
      /\ pending[p] = <<>>
      /\ Written(p) = <<>>
      /\ Untouched

C5_Witness ==
  /\ Translating(1) /\ ~HasProject(1) /\ pc[1] = "error"
  /\ err[1] = ErrProjectNotDict /\ args[1].dep_type = "all" /\ dirs = {}

\* C6: the same call made a second time on an unchanged manifest ends as
\* the first did (success or the same error) and leaves the same
\* directories, the same files with the same content, and the same
\* returned records and status lines; for both functions.
C6_Idempotent ==
  \A p \in Procs :
    (run[p] = 2 /\ pc[p] \in {"done", "error"}) =>
      /\ pc[p] = snap[p].pc
      /\ err[p] = snap[p].err
      /\ dirs = snap[p].dirs
      /\ files = snap[p].files
      /\ ret[p] = snap[p].ret
      /\ out[p] = snap[p].out
      /\ Written(p) = snap[p].written

C6_Witness ==
  /\ run[1] = 2 /\ pc[1] = "done" /\ Translating(1)
  /\ Len(Written(1)) = 3 /\ dirs0 = {}

\* The invocation that dumped file f last.
LastWriter(f) ==
  written[CHOOSE i \in 1..Len(written) :
            written[i].file = f /\ \A j \in (i + 1)..Len(written) : written[j].file # f].by

\* C7 (as stated): under every interleaving of two invocations on the same
\* output directory nobody fails (directory creation never fails because
\* the directory exists), and once both are done each group file holds the
\* complete record of the invocation that wrote it last.
C7_ConcurrentLastWriterWins ==
  /\ \A p \in Procs : pc[p] # "error"
  /\ (\A p \in Procs : pc[p] = "done") =>
       \A i \in 1..Len(written) :
         files[written[i].file] =
           YamlDump(DepYaml(dep_dict[LastWriter(written[i].file)]))

\* The calls of an "all" run in order, and how many of them have returned.
Order(p) == Calls(Project(p), args[p].dep_type, args[p].verbose)
Completed(p) == Len(Order(p)) - Len(pending[p])

\* C8: in "all" mode the groups are written strictly in sequence, the
\* required group first and then the optional groups in stored key order,
\* each one written before the next is extracted; when extracting the k-th
\* group fails, the groups before k are on disk and none from k onward is
\* written.
C8_AllInSequence ==
  \A p \in Procs :
    (Translating(p) /\ args[p].dep_type = "all" /\ pc[p] # "start" /\ HasProject(p)) =>
      /\ Written(p) = [i \in 1..Completed(p) |-> FileName(OutDir(p), Order(p)[i].sel)]
      /\ Len(ret[p]) = Completed(p)
      /\ pc[p] = "done" => pending[p] = <<>>
      /\ pc[p] = "error" =>
           /\ pending[p] # <<>>
           /\ \A i \in 1..Completed(p) : Holds(Written(p)[i], ret[p][i])
           /\ \A i \in (Completed(p) + 1)..Len(Order(p)) :
                FileName(OutDir(p), Order(p)[i].sel) \notin WrittenSet(p)

C8_Witness ==
  /\ Translating(1) /\ args[1].dep_type = "all" /\ pc[1] = "error"
  /\ Len(Written(1)) = 1 /\ Len(pending[1]) = 1 /\ run[1] = 1
  /\ files[Written(1)[1]] # <<>>

\* C9 (as stated): with verbose = True one status line is printed per file
\* written, in every mode; with verbose = False none is.
C9_StatusLinePerFile ==
  \A p \in Procs :
    (Translating(p) /\ pc[p] = "done") =>
      Len(out[p]) = (IF args[p].verbose THEN Len(Written(p)) ELSE 0)

\* C10: every mapping the translation hands to _write_dependencies has
\* exactly one group, so the empty-dictionary error is never raised by a
\* translation; an "all" run over a project table without groups succeeds
\* and writes nothing; and a direct call with an empty mapping raises the
\* input error and writes no file.
C10_NeverEmpty ==
  \A p \in Procs :
    /\ Translating(p) =>
         /\ err[p] # ErrEmpty
         /\ InWrite(p) => Len(dep_dict[p].v) = 1
    /\ (Translating(p) /\ HasProject(p) /\ args[p].dep_type = "all"
          /\ ~HasReq(p) /\ OptKeys(p) = {}) =>
         /\ pc[p] \in {"start", "done"}
         /\ Written(p) = <<>> /\ files = files0
    /\ (Writing(p) /\ Len(args[p].deps.v) = 0) =>
         /\ pc[p] \in {"exists", "makedirs", "open", "error"}
         /\ pc[p] = "error" => err[p] = ErrEmpty
         /\ Written(p) = <<>> /\ files = files0

C10_Witness ==
  /\ Translating(1) /\ HasProject(1) /\ args[1].dep_type = "all"
  /\ ~HasReq(1) /\ HasOpt(1) /\ OptKeys(1) = {}
  /\ pc[1] = "done" /\ run[1] = 2

====
